---- MODULE Spec2Model ----
(***************************************************************************)
(* Model of app2.py, the asteroid dashboard: a Streamlit script that is    *)
(* run top to bottom once per render.  Two memoized producers              *)
(* (load_static_data, fetch_nasa_data) feed a concatenation, a tri-state   *)
(* hazard filter, four charts, a data table and a CSV export.              *)
(*                                                                         *)
(* Text is a sequence of symbols.  A symbol is one character ("2", ".",    *)
(* ",", the double quote, the line feed) or a word standing for a run of   *)
(* characters none of which is special to CSV or to number syntax ("id",   *)
(* "Earth", "abc").  A cell value is a tagged text:                        *)
(*    <<"nan">>                 a missing value (NaN / None)               *)
(*    <<"bool", "True">>        a boolean                                  *)
(*    <<"float", "7", ".", "5">> a float, by its shortest decimal repr     *)
(*    <<"str", ...>>            a string                                   *)
(* A table (DataFrame) is [cols |-> sequence of column names,              *)
(* rows |-> sequence of functions from the column names to values].        *)
(***************************************************************************)
EXTENDS Integers, Sequences, FiniteSets, TLC

VARIABLES
    file,           \* the text of static_asteroids_data.csv
    response,       \* the reply the fetcher specification feeds to the fetcher
    today,          \* the current day, pd.Timestamp.today()
    static_cache,   \* the memo of load_static_data
    dynamic_cache,  \* the memo of fetch_nasa_data
    fileReads,      \* pd.read_csv calls made by the last render
    httpGets,       \* requests.get calls made by the last render
    hazard_filter,  \* the selection read by the last render
    status,         \* "init", or how the last render ended: "ok", "aborted"
    fault,          \* the exception the last fetch raised, "" if none
    neos,           \* the list neos as the last run of the fetcher left it
    combined_df,    \* combined_df as line 54 assigned it in the last render
    shown,          \* the table handed to st.dataframe
    csv,            \* the text handed to st.download_button
    charts          \* the charts drawn by the last render

vars == <<file, response, today, static_cache, dynamic_cache, fileReads,
          httpGets, hazard_filter, status, fault, neos, combined_df, shown,
          csv, charts>>

(* ------------------------------ bounds -------------------------------- *)

\* rows of the static file in the dashboard specification
MaxStatic == 2
\* objects in one feed response of the dashboard specification
MaxObjs == 2
\* date keys in one feed response of the fetcher specification
MaxDates == 2
\* entries in one object's close_approach_data list
MaxCad == 2
\* days the process lives through
MaxDay == 2
\* objects in one feed response of the fetcher specification
MaxFetchObjs == 2
\* rows of the static file in the loader specification
MaxLoaderRows == 1

(* ------------------------------ values -------------------------------- *)

COMMA == ","
QUOTE == "\""
NL == "\n"
DOT == "."
Digits == {"0", "1", "2", "3", "4", "5", "6", "7", "8", "9"}

NaN == <<"nan">>
BoolTrue == <<"bool", "True">>
BoolFalse == <<"bool", "False">>
Str(text) == <<"str">> \o text
IsNaN(v) == v = NaN

\* the sequences of length at most n over S
SeqUpTo(S, n) == UNION {[1..k -> S] : k \in 0..n}

RECURSIVE Concat(_)
\* the concatenation of a sequence of sequences
Concat(ss) == IF ss = <<>> THEN <<>> ELSE Head(ss) \o Concat(Tail(ss))

Contains(s, x) == \E i \in 1..Len(s) : s[i] = x

Count(s, x) == Cardinality({i \in 1..Len(s) : s[i] = x})

(* --------------------------- column names ----------------------------- *)

ID == <<"id">>
NAME == <<"name">>
MAGNITUDE == <<"absolute_magnitude_h">>
DIA_MIN == <<"estimated_diameter_min_km">>
DIA_MAX == <<"estimated_diameter_max_km">>
HAZARD == <<"is_potentially_hazardous_asteroid">>
APPROACH_DATE == <<"close_approach_date">>
VELOCITY == <<"relative_velocity_kmph">>
MISS_DISTANCE == <<"miss_distance_km">>
ORBITING_BODY == <<"orbiting_body">>

\* the keys of the dict appended to neos, in the order they are written
LiveCols == <<ID, NAME, MAGNITUDE, DIA_MIN, DIA_MAX, HAZARD, APPROACH_DATE,
              VELOCITY, MISS_DISTANCE, ORBITING_BODY>>

\* the four columns load_static_data passes to pd.to_numeric
NumericCols == {VELOCITY, MISS_DISTANCE, DIA_MIN, DIA_MAX}

EmptyTable == [cols |-> <<>>, rows |-> <<>>]

ColSet(df) == {df.cols[i] : i \in 1..Len(df.cols)}

(* --------------------------- number syntax ---------------------------- *)

RECURSIVE StripLeadingZeros(_)
StripLeadingZeros(ds) ==
    IF Len(ds) > 1 /\ Head(ds) = "0" THEN StripLeadingZeros(Tail(ds)) ELSE ds

RECURSIVE StripTrailingZeros(_)
StripTrailingZeros(ds) ==
    IF Len(ds) > 1 /\ ds[Len(ds)] = "0"
    THEN StripTrailingZeros(SubSeq(ds, 1, Len(ds) - 1))
    ELSE ds

\* the text is digits with at most one point and at least one digit
IsNumber(text) ==
    /\ \A i \in 1..Len(text) : text[i] \in Digits \cup {DOT}
    /\ Count(text, DOT) <= 1
    /\ \E i \in 1..Len(text) : text[i] \in Digits

\* the float a numeric text denotes: "07.50" and "7.5" are the same float
ToFloat(text) ==
    LET p == IF Contains(text, DOT)
             THEN CHOOSE i \in 1..Len(text) : text[i] = DOT
             ELSE Len(text) + 1
        ip == SubSeq(text, 1, p - 1)
        fp == SubSeq(text, p + 1, Len(text))
    IN  <<"float">> \o StripLeadingZeros(IF ip = <<>> THEN <<"0">> ELSE ip)
                    \o <<DOT>>
                    \o StripTrailingZeros(IF fp = <<>> THEN <<"0">> ELSE fp)

\* variant: errors='ignore', which hands a cell that is no number back as it is
ToNumericIgnore(v) ==
    IF v[1] = "float" THEN v
    ELSE IF v[1] = "str" /\ IsNumber(Tail(v)) THEN ToFloat(Tail(v))
    ELSE v

\* pd.to_numeric(column, errors='coerce'), cell by cell
ToNumericCoerce(v) ==
    IF v[1] = "float" THEN v
    ELSE IF v[1] = "str" /\ IsNumber(Tail(v)) THEN ToFloat(Tail(v))
    ELSE NaN

(* -------------------------------- CSV --------------------------------- *)

\* the strings pd.read_csv reads as a missing value
NaValues == {<<>>, <<"N/A">>, <<"NA">>, <<"NaN">>, <<"nan">>, <<"null">>}

RECURSIVE SplitRecord(_, _, _, _, _)
\* The record of a CSV text that starts at symbol i, as its sequence of
\* fields, and the place after it: commas separate fields and a line feed
\* ends the record outside quotes; inside quotes a doubled quote is one
\* quote.
SplitRecord(text, i, inQuote, fld, rec) ==
    IF i > Len(text) THEN [rec |-> Append(rec, fld), next |-> i]
    ELSE IF inQuote
    THEN IF text[i] = QUOTE /\ i < Len(text) /\ text[i + 1] = QUOTE
         THEN SplitRecord(text, i + 2, TRUE, Append(fld, QUOTE), rec)
         ELSE IF text[i] = QUOTE
         THEN SplitRecord(text, i + 1, FALSE, fld, rec)
         ELSE SplitRecord(text, i + 1, TRUE, Append(fld, text[i]), rec)
    ELSE IF text[i] = QUOTE
         THEN SplitRecord(text, i + 1, TRUE, fld, rec)
         ELSE IF text[i] = COMMA
         THEN SplitRecord(text, i + 1, FALSE, <<>>, Append(rec, fld))
         ELSE IF text[i] = NL
         THEN [rec |-> Append(rec, fld), next |-> i + 1]
         ELSE SplitRecord(text, i + 1, FALSE, Append(fld, text[i]), rec)

RECURSIVE SplitCsv(_, _, _)
\* the records of a CSV text from symbol i on; blank lines are skipped
SplitCsv(text, i, recs) ==
    IF i > Len(text) THEN recs
    ELSE LET r == SplitRecord(text, i, FALSE, <<>>, <<>>)
         IN  SplitCsv(text, r.next,
                      IF r.rec = <<<<>>>> THEN recs ELSE Append(recs, r.rec))

\* type inference of pd.read_csv on one cell: the missing-value strings,
\* the booleans, and text otherwise (numbers stay text until coerced)
InferCell(fld) ==
    IF fld \in NaValues THEN NaN
    ELSE IF fld = <<"True">> THEN BoolTrue
    ELSE IF fld = <<"False">> THEN BoolFalse
    ELSE Str(fld)

\* pd.read_csv: the first record is the header, the others are rows; a
\* short record is filled with missing values
ReadCsv(text) ==
    LET recs == SplitCsv(text, 1, <<>>)
        hdr == IF recs = <<>> THEN <<>> ELSE Head(recs)
        CellOf(rec, c) ==
            LET k == CHOOSE j \in 1..Len(hdr) : hdr[j] = c
            IN  IF k <= Len(rec) THEN InferCell(rec[k]) ELSE NaN
    IN  [cols |-> hdr,
         rows |-> [r \in 1..(Len(recs) - 1) |->
                     [c \in {hdr[j] : j \in 1..Len(hdr)} |->
                        CellOf(recs[r + 1], c)]]]

\* csv.QUOTE_MINIMAL: a field holding a comma, a quote or a line feed is
\* quoted, its quotes doubled
QuoteField(text) ==
    IF \E i \in 1..Len(text) : text[i] \in {COMMA, QUOTE, NL}
    THEN <<QUOTE>>
         \o Concat([i \in 1..Len(text) |->
                      IF text[i] = QUOTE THEN <<QUOTE, QUOTE>> ELSE <<text[i]>>])
         \o <<QUOTE>>
    ELSE text

\* how to_csv writes one value: a missing value is the empty field
FormatValue(v) ==
    IF IsNaN(v) THEN <<>> ELSE QuoteField(Tail(v))

\* fields joined by commas, ended by a line feed
CsvLine(fields) ==
    Concat([i \in 1..Len(fields) |->
              IF i = 1 THEN fields[i] ELSE <<COMMA>> \o fields[i]])
    \o <<NL>>

\* variant: to_csv() without index=False, which writes the row labels as a
\* first column under an empty name
ToCsvWithIndex(df) ==
    CsvLine(<<<<>>>> \o [j \in 1..Len(df.cols) |-> QuoteField(df.cols[j])])
    \o Concat([r \in 1..Len(df.rows) |->
                 CsvLine(<<<<"row">>>> \o [j \in 1..Len(df.cols) |->
                                    FormatValue(df.rows[r][df.cols[j]])])])

\* df.to_csv(index=False): the header line, then one line per row
ToCsv(df) ==
    CsvLine([j \in 1..Len(df.cols) |-> QuoteField(df.cols[j])])
    \o Concat([r \in 1..Len(df.rows) |->
                 CsvLine([j \in 1..Len(df.cols) |->
                            FormatValue(df.rows[r][df.cols[j]])])])

(* ---------------------------- static loader --------------------------- *)

\* the body of load_static_data: read the file, coerce the four columns
load_static_data(text) ==
    LET df == ReadCsv(text)
    IN  [cols |-> df.cols,
         rows |-> [r \in 1..Len(df.rows) |->
                     [c \in ColSet(df) |->
                        IF c \in NumericCols
                        THEN ToNumericCoerce(df.rows[r][c])
                        ELSE df.rows[r][c]]]]

(* ----------------------------- live fetcher --------------------------- *)

\* the days, as strftime('%Y-%m-%d') writes them
DayNames == <<"2026-11-05", "2026-11-06", "2026-11-07", "2026-11-08",
              "2026-11-09", "2026-11-10", "2026-11-11", "2026-11-12">>

NoResponse == [kind |-> "none", near_earth_objects |-> <<>>]

\* one entry of close_approach_data
Entry(date, kph, km, body) ==
    [close_approach_date |-> date, kilometers_per_hour |-> kph,
     kilometers |-> km, orbiting_body |-> body]

\* one object of the feed
Neo(id, name, hazardous, cad) ==
    [id |-> id, name |-> name,
     absolute_magnitude_h |-> ToFloat(<<"2", "1", DOT, "5">>),
     estimated_diameter_min |-> ToFloat(<<"0", DOT, "1">>),
     estimated_diameter_max |-> ToFloat(<<"0", DOT, "3">>),
     is_potentially_hazardous_asteroid |-> hazardous,
     close_approach_data |-> cad]

\* variant: close_approach_data[-1] in place of close_approach_data[0]
ObjRecordLast(obj) ==
    LET cad == obj.close_approach_data
        n == Len(cad)
    IN  IF cad = <<>> THEN [fault |-> "IndexError", rec |-> <<>>]
        ELSE IF ~IsNumber(cad[n].kilometers_per_hour) \/ ~IsNumber(cad[n].kilometers)
        THEN [fault |-> "ValueError", rec |-> <<>>]
        ELSE [fault |-> "",
              rec |-> <<(ID :> Str(obj.id)
                   @@ NAME :> Str(obj.name)
                   @@ MAGNITUDE :> obj.absolute_magnitude_h
                   @@ DIA_MIN :> obj.estimated_diameter_min
                   @@ DIA_MAX :> obj.estimated_diameter_max
                   @@ HAZARD :> obj.is_potentially_hazardous_asteroid
                   @@ APPROACH_DATE :> Str(cad[n].close_approach_date)
                   @@ VELOCITY :> ToFloat(cad[n].kilometers_per_hour)
                   @@ MISS_DISTANCE :> ToFloat(cad[n].kilometers)
                   @@ ORBITING_BODY :> Str(cad[n].orbiting_body))>>]

\* lines 34-48, the body of the inner loop: the record of one object, or
\* the exception raised: close_approach_data[0] of an empty list is an
\* IndexError, float() of a text that is no number a ValueError
ObjRecord(obj) ==
    LET cad == obj.close_approach_data
    IN  IF cad = <<>> THEN [fault |-> "IndexError", rec |-> <<>>]
        ELSE IF ~IsNumber(cad[1].kilometers_per_hour) \/ ~IsNumber(cad[1].kilometers)
        THEN [fault |-> "ValueError", rec |-> <<>>]
        ELSE [fault |-> "",
              rec |-> <<(ID :> Str(obj.id)
                   @@ NAME :> Str(obj.name)
                   @@ MAGNITUDE :> obj.absolute_magnitude_h
                   @@ DIA_MIN :> obj.estimated_diameter_min
                   @@ DIA_MAX :> obj.estimated_diameter_max
                   @@ HAZARD :> obj.is_potentially_hazardous_asteroid
                   @@ APPROACH_DATE :> Str(cad[1].close_approach_date)
                   @@ VELOCITY :> ToFloat(cad[1].kilometers_per_hour)
                   @@ MISS_DISTANCE :> ToFloat(cad[1].kilometers)
                   @@ ORBITING_BODY :> Str(cad[1].orbiting_body))>>]

RECURSIVE FlattenObjs(_, _)
\* the inner loop over one date's objects, appending to acc until one faults
FlattenObjs(objs, acc) ==
    IF objs = <<>> THEN [fault |-> "", neos |-> acc]
    ELSE LET r == ObjRecord(Head(objs))
         IN  IF r.fault # "" THEN [fault |-> r.fault, neos |-> acc]
             ELSE FlattenObjs(Tail(objs), acc \o r.rec)

RECURSIVE FlattenDates(_, _)
\* the outer loop over the date keys
FlattenDates(dates, acc) ==
    IF dates = <<>> THEN [fault |-> "", neos |-> acc]
    ELSE LET r == FlattenObjs(Head(dates).objs, acc)
         IN  IF r.fault # "" THEN r
             ELSE FlattenDates(Tail(dates), r.neos)

\* pd.DataFrame(neos): the columns are the keys of the records; an empty
\* list gives a frame with no columns
DataFrame(recs) ==
    [cols |-> IF recs = <<>> THEN <<>> ELSE LiveCols, rows |-> recs]

\* the body of fetch_nasa_data on the reply resp: the exception raised (and
\* the list built until then) or the frame returned
fetch_nasa_data(resp) ==
    IF resp.kind = "network_error"
    THEN [fault |-> "ConnectionError", neos |-> <<>>, df |-> EmptyTable]
    ELSE IF resp.kind = "not_json"
    THEN [fault |-> "JSONDecodeError", neos |-> <<>>, df |-> EmptyTable]
    ELSE IF resp.kind = "no_near_earth_objects"
    THEN [fault |-> "KeyError", neos |-> <<>>, df |-> EmptyTable]
    ELSE LET r == FlattenDates(resp.near_earth_objects, <<>>)
         IN  [fault |-> r.fault, neos |-> r.neos,
              df |-> IF r.fault = "" THEN DataFrame(r.neos) ELSE EmptyTable]

(* --------------------------- combine and filter ----------------------- *)

\* a row widened to the columns cols, missing where it has none
Widen(row, cols) ==
    [c \in cols |-> IF c \in DOMAIN row THEN row[c] ELSE NaN]

RECURSIVE DropDuplicateIds(_, _)
\* the rows whose id no earlier row has
DropDuplicateIds(rows, seen) ==
    IF rows = <<>> THEN <<>>
    ELSE IF Head(rows)[ID] \in seen THEN DropDuplicateIds(Tail(rows), seen)
    ELSE <<Head(rows)>> \o DropDuplicateIds(Tail(rows), seen \cup {Head(rows)[ID]})

\* variant: the concatenation followed by drop_duplicates(subset='id')
ConcatFramesUnique(a, b) ==
    LET cols == a.cols \o SelectSeq(b.cols, LAMBDA c : c \notin ColSet(a))
        cs == {cols[i] : i \in 1..Len(cols)}
    IN  [cols |-> cols,
         rows |-> DropDuplicateIds([i \in 1..(Len(a.rows) + Len(b.rows)) |->
                     IF i <= Len(a.rows) THEN Widen(a.rows[i], cs)
                     ELSE Widen(b.rows[i - Len(a.rows)], cs)], {})]

\* pd.concat([a, b], ignore_index=True): the union of the columns in order
\* of appearance, the rows of a then the rows of b
ConcatFrames(a, b) ==
    LET cols == a.cols \o SelectSeq(b.cols, LAMBDA c : c \notin ColSet(a))
        cs == {cols[i] : i \in 1..Len(cols)}
    IN  [cols |-> cols,
         rows |-> [i \in 1..(Len(a.rows) + Len(b.rows)) |->
                     IF i <= Len(a.rows) THEN Widen(a.rows[i], cs)
                     ELSE Widen(b.rows[i - Len(a.rows)], cs)]]

\* variant: "No" written as flag != True, which keeps a missing flag
HazardFilterNotTrue(sel, df) ==
    IF sel = "Yes"
    THEN [df EXCEPT !.rows = SelectSeq(df.rows, LAMBDA r : r[HAZARD] = BoolTrue)]
    ELSE IF sel = "No"
    THEN [df EXCEPT !.rows = SelectSeq(df.rows, LAMBDA r : r[HAZARD] # BoolTrue)]
    ELSE df

\* variant: the flag column filled with False (fillna) before it is compared
HazardFilterFill(sel, df) ==
    LET filled == [i \in 1..Len(df.rows) |->
                     IF IsNaN(df.rows[i][HAZARD])
                     THEN [df.rows[i] EXCEPT ![HAZARD] = BoolFalse]
                     ELSE df.rows[i]]
    IN  IF sel = "Yes"
        THEN [df EXCEPT !.rows = SelectSeq(filled, LAMBDA r : r[HAZARD] = BoolTrue)]
        ELSE IF sel = "No"
        THEN [df EXCEPT !.rows = SelectSeq(filled, LAMBDA r : r[HAZARD] = BoolFalse)]
        ELSE df

\* variant: the first row taken for a header and left out (iloc[1:])
HazardFilterSkipFirst(sel, df) ==
    LET rest == IF df.rows = <<>> THEN <<>> ELSE Tail(df.rows)
    IN  IF sel = "Yes"
        THEN [df EXCEPT !.rows = SelectSeq(rest, LAMBDA r : r[HAZARD] = BoolTrue)]
        ELSE IF sel = "No"
        THEN [df EXCEPT !.rows = SelectSeq(rest, LAMBDA r : r[HAZARD] = BoolFalse)]
        ELSE [df EXCEPT !.rows = rest]

\* lines 59-62: df[df[flag] == True], df[df[flag] == False], or df itself
HazardFilter(sel, df) ==
    IF sel = "Yes"
    THEN [df EXCEPT !.rows = SelectSeq(df.rows, LAMBDA r : r[HAZARD] = BoolTrue)]
    ELSE IF sel = "No"
    THEN [df EXCEPT !.rows = SelectSeq(df.rows, LAMBDA r : r[HAZARD] = BoolFalse)]
    ELSE df

(* ------------------------------ the script ---------------------------- *)

NoCache == [cached |-> FALSE, df |-> EmptyTable]

\* variant: the functions without their @st.cache_data decorator
HitNever(cache) == FALSE

\* st.cache_data on a function without arguments: one entry, no ttl, no
\* max_entries; it is hit once a call has returned
Hit(cache) == cache.cached

\* variant: the memo hands out the stored frame itself (st.cache_resource)
\* and the filter drops rows in place, so only the rows the last render
\* showed are left in it
MemoReturnShared(cache) ==
    IF status = "ok"
    THEN [cache.df EXCEPT !.rows =
            SelectSeq(cache.df.rows,
                      LAMBDA r : \E i \in 1..Len(shown.rows) :
                                    shown.rows[i] = Widen(r, ColSet(shown)))]
    ELSE cache.df

\* what a hit returns: st.cache_data hands out a copy of the stored frame
MemoReturn(cache) == cache.df

\* variant: the fetch wrapped in try/except, the script going on with the
\* static rows alone
RunScriptStaticOnFault(static_df, fetched, sel) ==
    LET combined == ConcatFrames(static_df, fetched.df)
        filtered == HazardFilter(sel, combined)
    IN  [status |-> IF fetched.fault # "" THEN "aborted" ELSE "ok",
         combined_df |-> combined, shown |-> filtered,
         csv |-> ToCsv(filtered), charts |-> 4]

\* Lines 53-125 once static_df is bound: an exception of fetch_nasa_data
\* ends the run at line 53 with nothing drawn; otherwise the frames are
\* concatenated, filtered, drawn as four charts, shown and exported
RunScript(static_df, fetched, sel) ==
    IF fetched.fault # ""
    THEN [status |-> "aborted", combined_df |-> EmptyTable,
          shown |-> EmptyTable, csv |-> <<>>, charts |-> 0]
    ELSE LET combined == ConcatFrames(static_df, fetched.df)
             filtered == HazardFilter(sel, combined)
         IN  [status |-> "ok", combined_df |-> combined, shown |-> filtered,
              csv |-> ToCsv(filtered), charts |-> 4]

(* ------------------------------- inputs ------------------------------- *)

Selections == {"All", "Yes", "No"}

FullHeader == LiveCols
ShortHeader == SelectSeq(LiveCols, LAMBDA c : c # MAGNITUDE)

\* the cells of one line of the static file, as text
StaticRow(id, name, hz, vel, dist, dmin, dmax, body) ==
    (ID :> id @@ NAME :> name @@ MAGNITUDE :> <<"1", "0", DOT, "4">>
     @@ DIA_MIN :> dmin @@ DIA_MAX :> dmax @@ HAZARD :> hz
     @@ APPROACH_DATE :> <<"2020-01-01">> @@ VELOCITY :> vel
     @@ MISS_DISTANCE :> dist @@ ORBITING_BODY :> body)

\* the text of a file with the given header and lines
FileText(header, rows) ==
    CsvLine(header)
    \o Concat([r \in 1..Len(rows) |->
                 CsvLine([j \in 1..Len(header) |-> QuoteField(rows[r][header[j]])])])

\* the lines the static file of the dashboard specification is made of
DashboardRows ==
    { StaticRow(<<"1">>, <<"Eros">>, <<"True">>, <<"2", "0">>, <<"N/A">>,
                <<"0", DOT, "5">>, <<"0", DOT, "6">>, <<"Earth">>),
      StaticRow(<<"2">>, <<"Ab", COMMA, "Cd">>, <<"False">>,
                <<"0", "7", DOT, "5", "0">>, <<"5">>, <<"1">>, <<DOT, "5">>,
                <<"Mars">>),
      StaticRow(<<"1">>, <<"X", QUOTE, "Y">>, <<>>, <<"abc">>, <<"3">>,
                <<>>, <<"1", DOT, "2", DOT, "3">>, <<>>) }

DashboardFiles ==
    {FileText(h, rows) : h \in {FullHeader, ShortHeader},
                         rows \in SeqUpTo(DashboardRows, MaxStatic)}

\* the entries of close_approach_data lists: two that parse, one whose
\* velocity is no number
EntryA(day) == Entry(<<DayNames[day]>>, <<"2", "0">>, <<"5">>, <<"Earth">>)
EntryB(day) ==
    Entry(<<DayNames[day + 1]>>, <<"3", "0", DOT, "5">>, <<"0", "7">>, <<"Mars">>)
EntryBad(day) == Entry(<<DayNames[day]>>, <<"fast">>, <<"5">>, <<"Earth">>)

\* the objects the feed of the dashboard specification is made of
DashboardNeos(day) ==
    { Neo(<<"1">>, <<"Eros">>, BoolFalse, <<EntryA(day)>>),
      Neo(<<"4">>, <<"Y", COMMA, "Z">>, BoolTrue, <<EntryB(day), EntryA(day)>>),
      Neo(<<"5">>, <<"Odd">>, BoolTrue, <<>>) }

\* the objects the feed of the fetcher specification is made of
FetcherNeos(day) ==
    { Neo(<<"7">>, <<"Ida">>, BoolTrue, cad) :
      cad \in SeqUpTo({EntryA(day), EntryB(day)}, MaxCad) \cup {<<EntryBad(day)>>} }

\* the ways to cut a list of n objects into nd consecutive date lists: the
\* place where each date's list ends
Cuts(n, nd) ==
    {b \in [1..nd -> 0..n] :
        /\ \A i \in 1..(nd - 1) : b[i] <= b[i + 1]
        /\ (IF nd = 0 THEN 0 ELSE b[nd]) = n}

\* the feed of a day that holds the objects of flat, cut at b into date
\* keys, the first the day asked for
Feed(day, flat, b) ==
    [kind |-> "feed",
     near_earth_objects |->
        [i \in 1..Len(b) |->
           [date |-> DayNames[day + i - 1],
            objs |-> SubSeq(flat, (IF i = 1 THEN 0 ELSE b[i - 1]) + 1, b[i])]]]

\* the feeds of a day: at most maxDates date keys holding at most maxObjs
\* objects of objs in all
Feeds(day, objs, maxDates, maxObjs) ==
    UNION { {Feed(day, flat, b) : b \in UNION {Cuts(Len(flat), nd) : nd \in 0..maxDates}} :
            flat \in SeqUpTo(objs, maxObjs) }

\* the replies that are no feed: no reply, a body that is not JSON, a JSON
\* body without near_earth_objects
Failures ==
    { [kind |-> k, near_earth_objects |-> <<>>] :
      k \in {"network_error", "not_json", "no_near_earth_objects"} }

\* the GET of line 29 asks for one day: start_date = end_date = today
DashboardResponses(day) ==
    Failures \cup Feeds(day, DashboardNeos(day), 1, MaxObjs)


\* the cells the numeric columns of the loader specification's file hold
LoaderCells ==
    {<<"7", DOT, "5", "0">>, <<"abc">>, <<>>, <<"1", DOT, "2", DOT, "3">>}

LoaderRows ==
    { StaticRow(<<"1">>, <<"Eros">>, <<"True">>, vel, dist, dmin, dmax, <<"Earth">>) :
      vel \in LoaderCells, dist \in LoaderCells,
      dmin \in LoaderCells, dmax \in LoaderCells }

LoaderFiles == {FileText(FullHeader, rows) : rows \in SeqUpTo(LoaderRows, MaxLoaderRows)}

(* ------------------------------- actions ------------------------------ *)

\* the process has started and no script run has happened
Fresh ==
    /\ today = 1
    /\ static_cache = NoCache
    /\ dynamic_cache = NoCache
    /\ fileReads = 0
    /\ httpGets = 0
    /\ hazard_filter = "All"
    /\ status = "init"
    /\ fault = ""
    /\ neos = <<>>
    /\ combined_df = EmptyTable
    /\ shown = EmptyTable
    /\ csv = <<>>
    /\ charts = 0

Init ==
    /\ file \in DashboardFiles
    /\ response = NoResponse
    /\ Fresh

\* One run of the script with the selection sel; resp is the reply to the
\* GET, should fetch_nasa_data run.
Render(sel, resp) ==
    /\ \E static_df \in {IF Hit(static_cache) THEN MemoReturn(static_cache)
                          ELSE load_static_data(file)} :
       \E fetched \in {IF Hit(dynamic_cache)
                        THEN [fault |-> "", neos |-> <<>>,
                              df |-> MemoReturn(dynamic_cache)]
                        ELSE fetch_nasa_data(resp)} :
       \E out \in {RunScript(static_df, fetched, sel)} :
           /\ static_cache' = IF Hit(static_cache) THEN static_cache
                              ELSE [cached |-> TRUE, df |-> static_df]
           /\ fileReads' = IF Hit(static_cache) THEN 0 ELSE 1
           /\ dynamic_cache' = IF Hit(dynamic_cache) \/ fetched.fault # ""
                               THEN dynamic_cache
                               ELSE [cached |-> TRUE, df |-> fetched.df]
           /\ httpGets' = IF Hit(dynamic_cache) THEN 0 ELSE 1
           /\ fault' = fetched.fault
           /\ neos' = fetched.neos
           /\ hazard_filter' = IF out.status = "ok" THEN sel ELSE hazard_filter
           /\ status' = out.status
           /\ combined_df' = out.combined_df
           /\ shown' = out.shown
           /\ csv' = out.csv
           /\ charts' = out.charts
    /\ UNCHANGED <<file, response, today>>

\* midnight passes
AdvanceDay ==
    /\ today < MaxDay
    /\ today' = today + 1
    /\ UNCHANGED <<file, response, static_cache, dynamic_cache, fileReads,
                   httpGets, hazard_filter, status, fault, neos, combined_df,
                   shown, csv, charts>>

Next ==
    \/ \E sel \in Selections :
          \E resp \in IF Hit(dynamic_cache) THEN {NoResponse}
                       ELSE DashboardResponses(today) : Render(sel, resp)
    \/ AdvanceDay

Spec == Init /\ [][Next]_vars

(* ---------------- the loader and the fetcher on their own ------------- *)

\* line 52 alone: the first call of load_static_data
CallLoadStatic ==
    /\ ~Hit(static_cache)
    /\ static_cache' = [cached |-> TRUE, df |-> load_static_data(file)]
    /\ fileReads' = 1
    /\ UNCHANGED <<file, response, today, dynamic_cache, httpGets,
                   hazard_filter, status, fault, neos, combined_df, shown,
                   csv, charts>>

InitLoader ==
    /\ file \in LoaderFiles
    /\ response = NoResponse
    /\ Fresh

NextLoader == CallLoadStatic

SpecLoader == InitLoader /\ [][NextLoader]_vars

\* line 53 alone: the first call of fetch_nasa_data, the reply being response
CallFetch ==
    /\ ~Hit(dynamic_cache)
    /\ httpGets = 0
    /\ \E fetched \in {fetch_nasa_data(response)} :
          /\ dynamic_cache' = IF fetched.fault # "" THEN dynamic_cache
                              ELSE [cached |-> TRUE, df |-> fetched.df]
          /\ fault' = fetched.fault
          /\ neos' = fetched.neos
    /\ httpGets' = 1
    /\ UNCHANGED <<file, response, today, static_cache, fileReads,
                   hazard_filter, status, combined_df, shown, csv, charts>>

InitFetcher ==
    /\ file = FileText(FullHeader, <<>>)
    /\ \/ response \in Failures
       \/ \E flat \in SeqUpTo(FetcherNeos(1), MaxFetchObjs) :
            \E nd \in 0..MaxDates :
              \E b \in Cuts(Len(flat), nd) : response = Feed(1, flat, b)
    /\ Fresh

NextFetcher == CallFetch

SpecFetcher == InitFetcher /\ [][NextFetcher]_vars

(* ------------------------------- claims ------------------------------- *)

\* the rows of df whose hazard flag is v
RowsWith(df, v) == SelectSeq(df.rows, LAMBDA r : r[HAZARD] = v)

HasRowWith(df, v) == \E i \in 1..Len(df.rows) : df.rows[i][HAZARD] = v

RECURSIVE IsSubSeq(_, _)
\* a is b with some of its elements left out
IsSubSeq(a, b) ==
    IF a = <<>> THEN TRUE
    ELSE IF b = <<>> THEN FALSE
    ELSE IF Head(a) = Head(b) THEN IsSubSeq(Tail(a), Tail(b))
    ELSE IsSubSeq(a, Tail(b))

\* C1: the table a render shows is, under "All", every row of the combined
\* table, under "Yes" exactly its rows whose flag is true and under "No"
\* exactly its rows whose flag is false; a row whose flag is missing is in
\* neither the "Yes" nor the "No" result.
C1_FilterSelectsByFlag ==
    status = "ok" =>
        /\ shown.cols = combined_df.cols
        /\ hazard_filter = "All" => shown.rows = combined_df.rows
        /\ hazard_filter = "Yes" => shown.rows = RowsWith(combined_df, BoolTrue)
        /\ hazard_filter = "No" => shown.rows = RowsWith(combined_df, BoolFalse)
        /\ hazard_filter # "All" => ~HasRowWith(shown, NaN)

C1_Witness ==
    /\ status = "ok"
    /\ hazard_filter = "No"
    /\ HasRowWith(combined_df, NaN)
    /\ HasRowWith(combined_df, BoolTrue)
    /\ shown.rows # <<>>

\* C2: the combined table has len(static) + len(live) rows, the static rows
\* first and the live rows after them, each with its values, also when the
\* live table is empty or two rows share an id.
C2_ConcatKeepsEveryRow ==
    status = "ok" =>
        LET s == static_cache.df
            d == dynamic_cache.df
        IN  /\ Len(combined_df.rows) = Len(s.rows) + Len(d.rows)
            /\ \A i \in 1..Len(s.rows) : \A c \in ColSet(s) :
                  combined_df.rows[i][c] = s.rows[i][c]
            /\ \A i \in 1..Len(d.rows) : \A c \in ColSet(d) :
                  combined_df.rows[Len(s.rows) + i][c] = d.rows[i][c]

C2_Witness ==
    /\ status = "ok"
    /\ \E i \in 1..Len(static_cache.df.rows) :
         \E j \in 1..Len(dynamic_cache.df.rows) :
            static_cache.df.rows[i][ID] = dynamic_cache.df.rows[j][ID]

\* the field of column c in record r of the file, as text
RawCell(recs, r, c) ==
    recs[r + 1][CHOOSE j \in 1..Len(recs[1]) : recs[1][j] = c]

\* C3: load_static_data keeps every line of the file as a row, and in each
\* of the four numeric columns a cell that is no number is a missing value
\* while a cell that is a number is a float.
C3_MalformedCellsBecomeMissing ==
    static_cache.cached =>
        LET recs == SplitCsv(file, 1, <<>>)
            df == static_cache.df
        IN  /\ Len(df.rows) = Count(file, NL) - 1
            /\ df.cols = recs[1]
            /\ \A r \in 1..Len(df.rows) : \A c \in NumericCols :
                  IF IsNumber(RawCell(recs, r, c))
                  THEN df.rows[r][c][1] = "float"
                  ELSE df.rows[r][c] = NaN

C3_Witness ==
    /\ static_cache.cached
    /\ \E r \in 1..Len(static_cache.df.rows) :
          /\ RawCell(SplitCsv(file, 1, <<>>), r, VELOCITY) = <<"abc">>
          /\ static_cache.df.rows[r][VELOCITY] = NaN
          /\ static_cache.df.rows[r][MISS_DISTANCE] = ToFloat(<<"7", DOT, "5">>)

\* C4: once both memos are filled, no step changes them, and a render
\* reads no file and issues no GET, whatever the selection and the day.
C4_MemoNeverRefreshed ==
    [][(static_cache.cached /\ dynamic_cache.cached) =>
          /\ static_cache' = static_cache
          /\ dynamic_cache' = dynamic_cache
          /\ today' = today => (fileReads' = 0 /\ httpGets' = 0)]_vars

C4_Witness ==
    /\ status = "ok"
    /\ today > 1
    /\ httpGets = 0
    /\ fileReads = 0
    /\ hazard_filter = "Yes"
    /\ \E i \in 1..Len(dynamic_cache.df.rows) :
          dynamic_cache.df.rows[i][APPROACH_DATE] = Str(<<DayNames[1]>>)

\* C5: a render whose fetch faults is aborted: it draws no chart, shows no
\* table, exports no CSV, and memoizes no live table.
C5_FetchFaultAbortsRender ==
    fault # "" =>
        /\ status = "aborted"
        /\ charts = 0
        /\ shown = EmptyTable
        /\ csv = <<>>
        /\ combined_df = EmptyTable
        /\ ~dynamic_cache.cached

C5_Witness ==
    /\ fault = "IndexError"
    /\ neos # <<>>
    /\ static_cache.cached
    /\ static_cache.df.rows # <<>>

\* the objects of a feed, date key after date key
FeedObjects(resp) ==
    Concat([i \in 1..Len(resp.near_earth_objects) |-> resp.near_earth_objects[i].objs])

\* every object has a close approach whose velocity and distance are numbers
WellFormed(resp) ==
    /\ resp.kind = "feed"
    /\ \A i \in 1..Len(FeedObjects(resp)) :
          LET cad == FeedObjects(resp)[i].close_approach_data
          IN  /\ cad # <<>>
              /\ IsNumber(cad[1].kilometers_per_hour)
              /\ IsNumber(cad[1].kilometers)

\* C6: on a well-formed feed fetch_nasa_data returns one record per object
\* over all date keys, in order, whose approach date, velocity, miss
\* distance and orbiting body are those of the object's first close approach.
C6_OneRecordPerObject ==
    (httpGets = 1 /\ WellFormed(response)) =>
        LET objs == FeedObjects(response)
            rows == dynamic_cache.df.rows
        IN  /\ fault = ""
            /\ dynamic_cache.cached
            /\ Len(rows) = Len(objs)
            /\ \A k \in 1..Len(objs) :
                  LET first == objs[k].close_approach_data[1]
                  IN  /\ rows[k][ID] = Str(objs[k].id)
                      /\ rows[k][APPROACH_DATE] = Str(first.close_approach_date)
                      /\ rows[k][VELOCITY] = ToFloat(first.kilometers_per_hour)
                      /\ rows[k][MISS_DISTANCE] = ToFloat(first.kilometers)
                      /\ rows[k][ORBITING_BODY] = Str(first.orbiting_body)

C6_Witness ==
    /\ httpGets = 1
    /\ WellFormed(response)
    /\ Len(response.near_earth_objects) = 2
    /\ \A i \in 1..2 : response.near_earth_objects[i].objs # <<>>
    /\ \E k \in 1..Len(FeedObjects(response)) :
          LET cad == FeedObjects(response)[k].close_approach_data
          IN  Len(cad) = 2 /\ cad[1] # cad[2]

\* C7: the table a render shows is the filter of its selection applied to
\* the whole concatenation of the memoized static and live tables.
C7_FilterLeavesSourcesWhole ==
    status = "ok" =>
        shown = HazardFilter(hazard_filter,
                             ConcatFrames(static_cache.df, dynamic_cache.df))

C7_Witness ==
    /\ status = "ok"
    /\ httpGets = 0
    /\ fileReads = 0
    /\ hazard_filter = "All"
    /\ HasRowWith(shown, BoolTrue)
    /\ HasRowWith(shown, BoolFalse)
    /\ HasRowWith(shown, NaN)

\* C8: the filtered table has the columns of the combined table and its
\* rows are rows of the combined table, unchanged and in order, so it never
\* has more rows.
C8_FilteredIsSubCollection ==
    status = "ok" =>
        /\ shown.cols = combined_df.cols
        /\ IsSubSeq(shown.rows, combined_df.rows)
        /\ Len(shown.rows) <= Len(combined_df.rows)

C8_Witness ==
    /\ status = "ok"
    /\ hazard_filter = "Yes"
    /\ shown.rows # <<>>
    /\ Len(shown.rows) < Len(combined_df.rows)
    /\ HasRowWith(combined_df, NaN)

\* C9: filtering the shown table again with the same selection gives the
\* shown table, and under "All" the shown table is the combined table.
C9_FilterIdempotent ==
    status = "ok" =>
        /\ HazardFilter(hazard_filter, shown) = shown
        /\ hazard_filter = "All" => shown = combined_df
        /\ HazardFilter("All", combined_df) = combined_df

C9_Witness ==
    /\ status = "ok"
    /\ hazard_filter = "No"
    /\ Len(shown.rows) >= 2
    /\ Len(shown.rows) < Len(combined_df.rows)

\* C10: the exported CSV is written from the table shown, and reading it
\* back gives that table's columns (the combined schema, no index column)
\* and as many rows as it has.
C10_CsvRoundTrip ==
    status = "ok" =>
        LET back == ReadCsv(csv)
        IN  /\ back.cols = shown.cols
            /\ back.cols = combined_df.cols
            /\ Len(back.rows) = Len(shown.rows)

C10_Witness ==
    /\ status = "ok"
    /\ HasRowWith(shown, NaN)
    /\ \E i \in 1..Len(shown.rows) : Contains(shown.rows[i][NAME], COMMA)
    /\ Len(ReadCsv(csv).rows) = Len(shown.rows)

C10_WitnessEmpty ==
    /\ status = "ok"
    /\ shown.rows = <<>>
    /\ combined_df.rows # <<>>

====
